---- MODULE Spec2Model ----
(***************************************************************************)
(* Model of src/main.py: the cryptocurrency analysis dashboard.            *)
(*                                                                         *)
(* A price series is modelled by its "Adj Close" column, a sequence of     *)
(* integer prices (index labels are the positions 1..n, as after           *)
(* reset_index).  Floating-point results are modelled by exact rationals   *)
(* [num, den] in lowest terms.  A Python Optional is a sequence of length  *)
(* 0 (None) or 1 (the value).                                              *)
(***************************************************************************)
EXTENDS Integers, Sequences, FiniteSets, TLC

VARIABLES
    pc,            \* position of the running script
    data,          \* Optional series: the value returned by load_data
    timeframe,     \* the selected timeframe
    period,        \* the selected period
    indicators,    \* the dict built by calculate_indicators
    warnings,      \* the st.warning messages shown so far
    price_change,  \* the value returned by calculate_price_change
    trend,         \* the tuple returned by analyze_trend
    insights,      \* the list returned by provide_insights
    fault,         \* the exception that ended the script, or "none"
    feed,          \* what yf.download returns for each ticker
    market_caps,   \* what get_market_cap returns for each coin
    sort_by,       \* the "Sort by" selection of the sidebar
    idx,           \* create_dashboard: number of coins already processed
    changes        \* create_dashboard: the list of cards

vars == <<pc, data, timeframe, period, indicators, warnings, price_change,
          trend, insights, fault, feed, market_caps, sort_by, idx, changes>>

----------------------------------------------------------------------------
(* Bounds of the model *)

\* longest series drawn bar by bar from Prices
MaxLen == 4
\* bars beyond an indicator window in the long series
MaxExtra == 1
\* longest series handed to analyze_trend with an arbitrary indicator set
MaxTrendLen == 2
\* longest sequence of an arbitrary indicator set
MaxIndLen == 1

\* the prices a bar can take
Prices == {0, 5, 10}

----------------------------------------------------------------------------
(* Python values *)

None == <<>>
EmptyDict == [k \in {} |-> <<>>]
Some(x) == <<x>>
IsNone(o) == Len(o) = 0
Get(o) == o[1]

RECURSIVE GCD(_, _)
GCD(a, b) == IF b = 0 THEN a ELSE GCD(b, a % b)

Abs(n) == IF n < 0 THEN -n ELSE n

\* a float, as the rational n/d in lowest terms with d > 0
Rat(n, d) ==
    LET s == IF d < 0 THEN -1 ELSE 1
        g == GCD(Abs(n), Abs(d))
    IN  [kind |-> "num", num |-> (s * n) \div g, den |-> (s * d) \div g]

Int2Rat(n) == Rat(n, 1)
NaN == [kind |-> "NaN", num |-> 0, den |-> 1]
NoneValue == [kind |-> "None", num |-> 0, den |-> 1]

RatAdd(a, b) == Rat(a.num * b.den + b.num * a.den, a.den * b.den)
RatSub(a, b) == Rat(a.num * b.den - b.num * a.den, a.den * b.den)
RatMul(a, b) == Rat(a.num * b.num, a.den * b.den)
RatDiv(a, b) == Rat(a.num * b.den, a.den * b.num)
RatGT(a, b) == a.num * b.den > b.num * a.den

AllSeries(S, n) == UNION {[1..k -> S] : k \in 0..n}

----------------------------------------------------------------------------
(* calculate_price_change *)

\* data["Adj Close"].ne(0)
Ne0(closes) == [i \in 1..Len(closes) |-> closes[i] # 0]

B2I(b) == IF b THEN 1 ELSE 0

IdxMaxFirstRow(s) == 1

\* Series.idxmax(): the label of the first occurrence of the maximum
IdxMax(s) ==
    CHOOSE i \in 1..Len(s) :
        /\ \A j \in 1..Len(s) : B2I(s[j]) <= B2I(s[i])
        /\ \A j \in 1..(i - 1) : B2I(s[j]) < B2I(s[i])

PercentAsFraction(last, initial) ==
    RatDiv(RatSub(Int2Rat(last), Int2Rat(initial)), Int2Rat(initial))

\* ((last - initial_price) / initial_price) * 100
Percent(last, initial) ==
    RatMul(RatDiv(RatSub(Int2Rat(last), Int2Rat(initial)), Int2Rat(initial)), Int2Rat(100))

\* the change computed without the guard on the number of bars
calculate_price_change_unguarded(d) ==
    IF ~IsNone(d) /\ Len(Get(d)) > 0
    THEN LET closes == Get(d)
             initial_price == closes[IdxMax(Ne0(closes))]
         IN  IF initial_price # 0
             THEN Some(Percent(closes[Len(closes)], initial_price))
             ELSE None
    ELSE None

\* calculate_price_change(data), data being None or a series
calculate_price_change(d) ==
    IF ~IsNone(d) /\ Len(Get(d)) > 1
    THEN LET closes == Get(d)
             non_zero_price_idx == IdxMax(Ne0(closes))
             initial_price == closes[non_zero_price_idx]
         IN  IF initial_price # 0
             THEN Some(Percent(closes[Len(closes)], initial_price))
             ELSE None
    ELSE None

----------------------------------------------------------------------------
(* The change calculator applied to every series: the inputs are drawn in  *)
(* InitChange and CalculatePriceChange applies the function.               *)

Blank ==
    /\ timeframe = "" /\ period = "" /\ indicators = EmptyDict /\ warnings = <<>>
    /\ price_change = None /\ trend = None /\ insights = <<>> /\ fault = "none"
    /\ feed = <<>> /\ market_caps = <<>> /\ sort_by = "" /\ idx = 0
    /\ changes = <<>>

InitChange ==
    /\ pc = "call"
    /\ data \in {None} \cup {Some(s) : s \in AllSeries(Prices, MaxLen)}
    /\ Blank

CalculatePriceChange ==
    /\ pc = "call"
    /\ price_change' = calculate_price_change(data)
    /\ pc' = "returned"
    /\ UNCHANGED <<data, timeframe, period, indicators, warnings, trend,
                   insights, fault, feed, market_caps, sort_by, idx, changes>>

NextChange == CalculatePriceChange

SpecChange == InitChange /\ [][NextChange]_vars

\* the series has no bar with a non-zero adjusted close
AllZero(closes) == \A i \in 1..Len(closes) : closes[i] = 0

\* the first bar, scanning from the start, whose adjusted close is non-zero
FirstNonZero(closes) ==
    CHOOSE i \in 1..Len(closes) :
        closes[i] # 0 /\ \A j \in 1..(i - 1) : closes[j] = 0

\* C1: calculate_price_change returns None if and only if the series is
\* absent, empty, has fewer than two bars, or every adjusted close is zero;
\* in every other case it returns a number.
C1_NoValueIff ==
    pc = "returned" =>
        /\ IsNone(price_change) <=>
              \/ IsNone(data)
              \/ Len(Get(data)) = 0
              \/ Len(Get(data)) < 2
              \/ AllZero(Get(data))
        /\ ~IsNone(price_change) => Get(price_change).kind = "num"

\* a series with a leading zero bar got a value
C1_Witness ==
    /\ pc = "returned"
    /\ data = Some(<<0, 5, 10>>)
    /\ ~IsNone(price_change)

\* C2: for a series of at least two bars with a non-zero adjusted close the
\* result is (last - initial) / initial * 100, initial being the close of the
\* first bar with a non-zero close; closes [0, 0, 5, 10] give 100.
C2_AnchorsOnFirstNonZero ==
    (pc = "returned" /\ ~IsNone(data)) =>
        LET closes == Get(data) IN
        (Len(closes) >= 2 /\ ~AllZero(closes)) =>
            LET initial == closes[FirstNonZero(closes)]
                last == closes[Len(closes)]
            IN  /\ initial # 0
                /\ ~IsNone(price_change)
                /\ Get(price_change).kind = "num"
                /\ Get(price_change).den > 0
                /\ Get(price_change).num * initial
                      = (last - initial) * 100 * Get(price_change).den
                /\ closes = <<0, 0, 5, 10>> => price_change = Some(Int2Rat(100))

\* the series of the example has been evaluated
C2_Witness ==
    /\ pc = "returned"
    /\ data = Some(<<0, 0, 5, 10>>)
    /\ price_change = Some(Int2Rat(100))

----------------------------------------------------------------------------
(* analyze_trend *)

SHORT_TERM == "Short-Term"
MEDIUM_TERM == "Medium-Term"
LONG_TERM == "Long-Term"
Timeframes == {SHORT_TERM, MEDIUM_TERM, LONG_TERM}

key_indicator_swapped(tf) ==
    IF tf = SHORT_TERM THEN "EMA_9"
    ELSE IF tf = MEDIUM_TERM THEN "SMA_200"
    ELSE "SMA_50"

key_indicator(tf) ==
    IF tf = SHORT_TERM THEN "EMA_9"
    ELSE IF tf = MEDIUM_TERM THEN "SMA_50"
    ELSE "SMA_200"

\* key_indicator.replace('_', '-')
ReplaceUnderscore(key) ==
    CASE key = "EMA_9" -> "EMA-9"
      [] key = "SMA_50" -> "SMA-50"
      [] key = "SMA_200" -> "SMA-200"

GreaterOrEqual(close, value) ==
    IF value.kind = "None" THEN "TypeError"
    ELSE IF value.kind = "NaN" THEN "False"
    ELSE IF ~RatGT(value, Int2Rat(close)) THEN "True" ELSE "False"

\* close > value, for a float close: a comparison with NaN is False, a
\* comparison with None raises TypeError
GreaterThan(close, value) ==
    IF value.kind = "None" THEN "TypeError"
    ELSE IF value.kind = "NaN" THEN "False"
    ELSE IF RatGT(Int2Rat(close), value) THEN "True" ELSE "False"

Verdict(t, color, r) ==
    [raises |-> "none", trend |-> t, trend_color |-> color, reason |-> r]
Raise(e) ==
    [raises |-> e, trend |-> "", trend_color |-> "", reason |-> <<>>]

\* the result of analyze_trend(data, indicators, timeframe) for a series d
analyze_trend(d, inds, tf) ==
    LET key == key_indicator(tf) IN
    IF Len(d) > 0 /\ key \in DOMAIN inds /\ Len(inds[key]) > 0
    THEN LET above == GreaterThan(d[Len(d)], inds[key][Len(inds[key])]) IN
         IF above = "TypeError" THEN Raise("TypeError")
         ELSE IF above = "True"
         THEN Verdict("Bullish", "green",
                      <<"The current price is above the ", ReplaceUnderscore(key)>>)
         ELSE Verdict("Bearish", "red",
                      <<"The current price is below the ", ReplaceUnderscore(key)>>)
    ELSE Verdict("Neutral", "black", <<"Insufficient data to determine the trend.">>)

----------------------------------------------------------------------------
(* The trend classifier applied to every series and every indicator set.   *)

ReferenceKeys == {"EMA_9", "SMA_50", "SMA_200"}
IndicatorValues == {Int2Rat(5), NaN, NoneValue}
IndicatorSets ==
    UNION {[K -> AllSeries(IndicatorValues, MaxIndLen)] : K \in SUBSET ReferenceKeys}

InitTrend ==
    /\ pc = "call"
    /\ data \in {Some(s) : s \in AllSeries(Prices, MaxTrendLen)}
    /\ timeframe \in Timeframes
    /\ indicators \in IndicatorSets
    /\ period = "" /\ warnings = <<>> /\ price_change = None /\ trend = None
    /\ insights = <<>> /\ fault = "none" /\ feed = <<>> /\ market_caps = <<>>
    /\ sort_by = "" /\ idx = 0 /\ changes = <<>>

AnalyzeTrend ==
    /\ pc = "call"
    /\ LET r == analyze_trend(Get(data), indicators, timeframe) IN
       IF r.raises = "none"
       THEN /\ trend' = Some(r)
            /\ pc' = "returned"
            /\ fault' = fault
       ELSE /\ trend' = trend
            /\ pc' = "raised"
            /\ fault' = r.raises
    /\ UNCHANGED <<data, timeframe, period, indicators, warnings, price_change,
                   insights, feed, market_caps, sort_by, idx, changes>>

NextTrend == AnalyzeTrend

SpecTrend == InitTrend /\ [][NextTrend]_vars

\* the reference indicator the design gives each horizon
ReferenceIndicator(tf) ==
    CASE tf = SHORT_TERM -> "EMA_9"
      [] tf = MEDIUM_TERM -> "SMA_50"
      [] tf = LONG_TERM -> "SMA_200"

DisplayName(key) ==
    CASE key = "EMA_9" -> "EMA-9"
      [] key = "SMA_50" -> "SMA-50"
      [] key = "SMA_200" -> "SMA-200"

\* the reference indicator of the horizon is present and not empty
HasReference(inds, tf) ==
    /\ ReferenceIndicator(tf) \in DOMAIN inds
    /\ Len(inds[ReferenceIndicator(tf)]) > 0

LastOf(s) == s[Len(s)]

\* the series is not empty and the reference indicator's last value is defined
Comparable(d, inds, tf) ==
    /\ Len(d) > 0
    /\ HasReference(inds, tf)
    /\ LastOf(inds[ReferenceIndicator(tf)]).kind = "num"

\* C3: with a non-empty series and a defined last reference value the verdict
\* is Bullish exactly when the last close is strictly greater than that value
\* and Bearish otherwise (so Bearish on equality), and the reason names the
\* horizon's reference indicator.
C3_BullishIffStrictlyAbove ==
    (pc # "call" /\ Comparable(Get(data), indicators, timeframe)) =>
        LET close == LastOf(Get(data))
            ref == LastOf(indicators[ReferenceIndicator(timeframe)])
        IN  /\ pc = "returned"
            /\ close * ref.den > ref.num => Get(trend).trend = "Bullish"
            /\ close * ref.den <= ref.num => Get(trend).trend = "Bearish"
            /\ close * ref.den = ref.num => Get(trend).trend # "Neutral"
            /\ Len(Get(trend).reason) = 2
            /\ Get(trend).reason[2] = DisplayName(ReferenceIndicator(timeframe))

\* a last close equal to the reference value was classified Bearish
C3_Witness ==
    /\ pc = "returned"
    /\ Comparable(Get(data), indicators, timeframe)
    /\ Int2Rat(LastOf(Get(data))) = LastOf(indicators[ReferenceIndicator(timeframe)])
    /\ Get(trend).trend = "Bearish"

\* C4: an empty series, an absent reference indicator or an empty reference
\* sequence yields Neutral with the insufficient-data reason, and no other
\* input yields Neutral.
C4_NeutralIffInsufficient ==
    pc # "call" =>
        LET insufficient ==
                Len(Get(data)) = 0 \/ ~HasReference(indicators, timeframe)
        IN  /\ insufficient =>
                /\ pc = "returned"
                /\ Get(trend).trend = "Neutral"
                /\ Get(trend).reason = <<"Insufficient data to determine the trend.">>
            /\ (pc = "returned" /\ Get(trend).trend = "Neutral") => insufficient

\* Neutral was returned for a non-empty series whose reference indicator is
\* absent while other indicators are present
C4_Witness ==
    /\ pc = "returned"
    /\ Len(Get(data)) > 0
    /\ DOMAIN indicators # {}
    /\ ReferenceIndicator(timeframe) \notin DOMAIN indicators
    /\ Get(trend).trend = "Neutral"

----------------------------------------------------------------------------
(* calculate_indicators *)

EMA_9_WINDOW == 9
SMA_50_WINDOW == 50
SMA_200_WINDOW == 200
MIN_BARS_SMA_200 == 200

RECURSIVE SumRange(_, _, _)
\* s[lo] + ... + s[hi], summed by halves
SumRange(s, lo, hi) ==
    IF lo > hi THEN 0
    ELSE IF lo = hi THEN s[lo]
    ELSE LET mid == (lo + hi) \div 2
         IN  SumRange(s, lo, mid) + SumRange(s, mid + 1, hi)

\* SMAIndicator(close, window).sma_indicator():
\* close.rolling(window, min_periods=window).mean()
SMA(closes, window) ==
    [i \in 1..Len(closes) |->
        IF i < window THEN NaN
        ELSE Rat(SumRange(closes, i - window + 1, i), window)]

\* one row of close.ewm(span, adjust=False).mean():
\* y[i] = (1 - alpha) * y[i-1] + alpha * x[i], alpha = 2 / (span + 1)
EwmStep(prev, x, span) ==
    RatAdd(RatMul(Rat(span - 1, span + 1), prev), RatMul(Rat(2, span + 1), Int2Rat(x)))

RECURSIVE EwmRows(_, _, _, _, _)
\* the rows lo..hi of close.ewm(span, adjust=False).mean(), prev being the
\* value of row lo - 1 (rows computed by halves)
EwmRows(closes, span, prev, lo, hi) ==
    IF lo > hi THEN <<>>
    ELSE IF lo = hi THEN <<EwmStep(prev, closes[lo], span)>>
    ELSE LET mid == (lo + hi) \div 2
             left == EwmRows(closes, span, prev, lo, mid)
         IN  left \o EwmRows(closes, span, left[Len(left)], mid + 1, hi)

\* close.ewm(span, adjust=False).mean(): y[1] = x[1]
EwmMean(closes, span) ==
    IF Len(closes) = 0 THEN <<>>
    ELSE <<Int2Rat(closes[1])>> \o EwmRows(closes, span, Int2Rat(closes[1]), 2, Len(closes))

\* EMAIndicator(close, window).ema_indicator():
\* close.ewm(span=window, min_periods=window, adjust=False).mean()
EMA(closes, window) ==
    LET mean == EwmMean(closes, window) IN
    [i \in 1..Len(closes) |-> IF i < window THEN NaN ELSE mean[i]]

\* a series computed by the ta library that no modelled operation reads
LibSeries(n) == [i \in 1..n |-> "ta"]

\* pd.Series([None] * len(data), index=data.index)
NoneSeries(n) == [i \in 1..n |-> NoneValue]

EnoughForSma200Strict(n) == n > MIN_BARS_SMA_200

\* len(data) >= 200
EnoughForSma200(n) == n >= MIN_BARS_SMA_200

SMA_200_WARNING == "Not enough data for SMA 200 calculation."

\* the dict calculate_indicators(data, timeframe) returns, and the warnings
\* it shows, for a series d
calculate_indicators(d, tf) ==
    LET n == Len(d) IN
    IF tf = SHORT_TERM
    THEN [indicators |->
              [RSI |-> LibSeries(n), BB_High |-> LibSeries(n),
               BB_Low |-> LibSeries(n), MACD |-> LibSeries(n),
               MACD_Signal |-> LibSeries(n), EMA_9 |-> EMA(d, EMA_9_WINDOW)],
          warnings |-> <<>>]
    ELSE IF tf = MEDIUM_TERM
    THEN [indicators |->
              [SMA_50 |-> SMA(d, SMA_50_WINDOW), SMA_200 |-> SMA(d, SMA_200_WINDOW),
               Ichimoku_A |-> LibSeries(n), Ichimoku_B |-> LibSeries(n)],
          warnings |-> <<>>]
    ELSE IF tf = LONG_TERM
    THEN IF EnoughForSma200(n)
         THEN [indicators |->
                   [SMA_200 |-> SMA(d, SMA_200_WINDOW),
                    VWAP |-> <<"bound method vwap">>],
               warnings |-> <<>>]
         ELSE [indicators |->
                   [SMA_200 |-> NoneSeries(n), VWAP |-> <<"bound method vwap">>],
               warnings |-> <<SMA_200_WARNING>>]
    ELSE [indicators |-> EmptyDict, warnings |-> <<>>]

----------------------------------------------------------------------------
(* provide_insights *)

\* f"{x:.2f}": x in hundredths, rounded half to even
Format2f(x) ==
    LET n == x.num * 100
        q == n \div x.den
        r == n % x.den
    IN  IF 2 * r > x.den THEN q + 1
        ELSE IF 2 * r < x.den THEN q
        ELSE IF q % 2 = 0 THEN q ELSE q + 1

period_label(p) ==
    CASE p = "5d" -> "last 7 days"
      [] p = "1mo" -> "last month"
      [] p = "6mo" -> "last 6 months"
      [] p = "1y" -> "last year"
      [] p = "3y" -> "last 3 years"
      [] p = "5y" -> "last 5 years"
      [] p = "10y" -> "last 10 years"
      [] OTHER -> "the selected time period"

Statement(t, a, v) == [template |-> t, args |-> a, value |-> v]

TREND_STATEMENT == "**Trend: <span style='color:{}'>{}</span>**"
CHANGE_STATEMENT ==
    "**Price change in the {}: <span style='color:{}'>{:.2f}%</span>**"
NO_CHANGE_STATEMENT == "Price change in the {}: Not enough data to calculate."

Returned(ins, t) == [raises |-> "none", insights |-> ins, trend |-> t]
Raised(e, t) == [raises |-> e, insights |-> <<>>, trend |-> t]

\* the outcome of provide_insights(data, indicators, timeframe, period) for a
\* series d: the list of statements and the trend, or the exception raised
provide_insights(d, inds, tf, p) ==
    LET t == analyze_trend(d, inds, tf) IN
    IF t.raises # "none" THEN Raised(t.raises, None)
    ELSE IF Len(d) = 0 THEN Raised("ValueError", Some(t))
    ELSE
    LET non_zero_price_idx == IdxMax(Ne0(d))
        initial_price == d[non_zero_price_idx]
        change == IF initial_price # 0
                  THEN Some(Percent(d[Len(d)], initial_price))
                  ELSE None
        price_change_color ==
            IF IsNone(change) THEN "black"
            ELSE IF Get(change).num > 0 THEN "green" ELSE "red"
        second ==
            IF ~IsNone(change)
            THEN Statement(CHANGE_STATEMENT, <<period_label(p), price_change_color>>,
                           Some(Format2f(Get(change))))
            ELSE Statement(NO_CHANGE_STATEMENT, <<period_label(p)>>, None)
    IN  Returned(<<Statement(TREND_STATEMENT, <<t.trend_color, t.trend>>, None),
                   second,
                   Statement("{}", t.reason, None)>>,
                 Some(t))

----------------------------------------------------------------------------
(* The detailed analysis view: the script from the sidebar selection to the *)
(* insights.                                                               *)

Periods(tf) ==
    IF tf = SHORT_TERM THEN {"5d", "1mo"}
    ELSE IF tf = MEDIUM_TERM THEN {"6mo", "1y", "3y"}
    ELSE {"5y", "10y"}

\* the lengths around the indicator windows
LongLengths ==
    UNION {(w - 1)..(w + MaxExtra) :
              w \in {EMA_9_WINDOW, SMA_50_WINDOW, SMA_200_WINDOW}}

\* the long series: every bar at one price and the last bar at another
LongSeries ==
    {[i \in 1..n |-> IF i < n THEN b ELSE l] :
        n \in LongLengths, b \in Prices, l \in Prices}

Downloads == AllSeries(Prices, MaxLen) \cup LongSeries

Init ==
    /\ pc = "sidebar"
    /\ data = None
    /\ Blank

SelectTimeframe ==
    /\ pc = "sidebar"
    /\ \E tf \in Timeframes :
          /\ timeframe' = tf
          /\ \E p \in Periods(tf) : period' = p
    /\ pc' = "load"
    /\ UNCHANGED <<data, indicators, warnings, price_change, trend, insights,
                   fault, feed, market_caps, sort_by, idx, changes>>

\* load_data: the series downloaded, or None when the download raises
LoadData ==
    /\ pc = "load"
    /\ \E d \in {None} \cup {Some(s) : s \in Downloads} : data' = d
    /\ pc' = IF IsNone(data') THEN "no_data" ELSE "loaded"
    /\ UNCHANGED <<timeframe, period, indicators, warnings, price_change, trend,
                   insights, fault, feed, market_caps, sort_by, idx, changes>>

CalculateIndicators ==
    /\ pc = "loaded"
    /\ LET r == calculate_indicators(Get(data), timeframe) IN
          /\ indicators' = r.indicators
          /\ warnings' = warnings \o r.warnings
    /\ pc' = "indicators"
    /\ UNCHANGED <<data, timeframe, period, price_change, trend, insights,
                   fault, feed, market_caps, sort_by, idx, changes>>

ProvideInsights ==
    /\ pc = "indicators"
    /\ LET r == provide_insights(Get(data), indicators, timeframe, period) IN
          /\ insights' = r.insights
          /\ trend' = r.trend
          /\ fault' = r.raises
          /\ pc' = IF r.raises = "none" THEN "insights" ELSE "crashed"
    /\ UNCHANGED <<data, timeframe, period, indicators, warnings, price_change,
                   feed, market_caps, sort_by, idx, changes>>

Next ==
    \/ SelectTimeframe
    \/ LoadData
    \/ CalculateIndicators
    \/ ProvideInsights

Spec == Init /\ [][Next]_vars

Undefined(v) == v.kind # "num"

\* C7: for the Long horizon a series of fewer than 200 bars gives an SMA_200
\* of the same length with every entry undefined and a warning; a series of
\* 200 bars or more gives no warning and an SMA_200 defined at every index
\* from 199 (the 200th bar) and undefined before it.
C7_LongSma200 ==
    (pc \in {"indicators", "insights", "crashed"} /\ timeframe = LONG_TERM) =>
        LET n == Len(Get(data))
            sma == indicators["SMA_200"]
        IN  /\ "SMA_200" \in DOMAIN indicators
            /\ Len(sma) = n
            /\ n < 200 =>
                  /\ \A i \in 1..n : Undefined(sma[i])
                  /\ warnings # <<>>
            /\ n >= 200 =>
                  /\ warnings = <<>>
                  /\ \A i \in 1..n : Undefined(sma[i]) <=> i < 200
                  /\ \A i \in 200..n :
                        sma[i].num * 200 = SumRange(Get(data), i - 199, i) * sma[i].den

\* a series of exactly 200 bars got a defined SMA_200 at its last bar and no
\* warning
C7_Witness ==
    /\ pc = "indicators"
    /\ timeframe = LONG_TERM
    /\ Len(Get(data)) = 200
    /\ warnings = <<>>
    /\ indicators["SMA_200"][200].kind = "num"

\* C8: calculate_price_change, analyze_trend and provide_insights complete for
\* every series and every horizon: no exception ends the script.
C8_NoUnhandledFault ==
    /\ fault = "none"
    /\ pc # "crashed"

\* C9: with a non-empty series and a non-empty reference sequence whose last
\* value is undefined, analyze_trend returns Neutral with the
\* insufficient-data reason and does not fail.
C9_UndefinedReferenceIsNeutral ==
    (/\ pc \in {"insights", "crashed"}
     /\ Len(Get(data)) > 0
     /\ HasReference(indicators, timeframe)
     /\ Undefined(LastOf(indicators[ReferenceIndicator(timeframe)]))) =>
        /\ fault = "none"
        /\ ~IsNone(trend)
        /\ Get(trend).trend = "Neutral"
        /\ Get(trend).reason = <<"Insufficient data to determine the trend.">>

\* C10: provide_insights returns three statements, the trend verdict, the
\* percent-change statement and the trend reason, in this order; the second
\* is the not-enough-data statement exactly when calculate_price_change
\* returns no value for the series, and otherwise shows that percent change.
C10_InsightsFollowPriceChange ==
    pc = "insights" =>
        LET change == calculate_price_change(data) IN
        /\ Len(insights) = 3
        /\ insights[1].template = TREND_STATEMENT
        /\ insights[1].args = <<Get(trend).trend_color, Get(trend).trend>>
        /\ insights[3].args = Get(trend).reason
        /\ insights[2].template = NO_CHANGE_STATEMENT <=> IsNone(change)
        /\ ~IsNone(change) =>
              /\ insights[2].template = CHANGE_STATEMENT
              /\ insights[2].value = Some(Format2f(Get(change)))

----------------------------------------------------------------------------
(* create_dashboard *)

\* the first entries of crypto_mapping, in the order of the dict
crypto_mapping ==
    <<[coin |-> "Bitcoin (BTC)", ticker |-> "BTC-USD"],
      [coin |-> "Ethereum (ETH)", ticker |-> "ETH-USD"],
      [coin |-> "Solana (SOL)", ticker |-> "SOL-USD"]>>

Tickers == {crypto_mapping[k].ticker : k \in 1..Len(crypto_mapping)}

coingecko_ids(coin) ==
    CASE coin = "Bitcoin (BTC)" -> "bitcoin"
      [] coin = "Ethereum (ETH)" -> "ethereum"
      [] coin = "Solana (SOL)" -> "solana"

CoinIds == {coingecko_ids(crypto_mapping[k].coin) : k \in 1..Len(crypto_mapping)}

\* the dict appended to changes
Card(entry, change, d, cap) ==
    [coin |-> entry.coin,
     ticker |-> entry.ticker,
     change |-> Get(change),
     current_price |-> IF Len(Get(d)) > 0 THEN Some(Get(d)[Len(Get(d))]) ELSE None,
     market_cap |-> cap]

\* the sort key: x["change"], or x["market_cap"] or 0
SortKey(x, by) ==
    IF by = "Price Change" THEN x.change
    ELSE IF IsNone(x.market_cap) \/ Get(x.market_cap) = 0 THEN Int2Rat(0)
    ELSE Int2Rat(Get(x.market_cap))

InsertBeforeTies(sorted, x, by) ==
    LET ahead == {i \in 1..Len(sorted) : RatGT(SortKey(sorted[i], by), SortKey(x, by))}
        p == Cardinality(ahead)
    IN  SubSeq(sorted, 1, p) \o <<x>> \o SubSeq(sorted, p + 1, Len(sorted))

\* x, which follows every element of sorted in the input, placed in the
\* descending list: after the elements whose key is greater or equal
InsertDescending(sorted, x, by) ==
    LET ahead == {i \in 1..Len(sorted) : ~RatGT(SortKey(x, by), SortKey(sorted[i], by))}
        p == Cardinality(ahead)
    IN  SubSeq(sorted, 1, p) \o <<x>> \o SubSeq(sorted, p + 1, Len(sorted))

RECURSIVE SortedReverse(_, _)
\* sorted(s, key=..., reverse=True): descending, equal keys in input order
SortedReverse(s, by) ==
    IF Len(s) = 0 THEN <<>>
    ELSE InsertDescending(SortedReverse(SubSeq(s, 1, Len(s) - 1), by), s[Len(s)], by)

\* what the price provider returns for a ticker
DashboardDownloads ==
    {None, Some(<<>>), Some(<<5>>), Some(<<0, 0, 0>>), Some(<<5, 10>>),
     Some(<<10, 5>>), Some(<<0, 5, 5>>)}

\* what get_market_cap returns for a coin id
MarketCaps == {None, Some(50), Some(100)}

InitDashboard ==
    /\ pc = "sidebar"
    /\ feed \in [Tickers -> DashboardDownloads]
    /\ market_caps \in [CoinIds -> MarketCaps]
    /\ data = None /\ timeframe = "" /\ period = "" /\ indicators = EmptyDict
    /\ warnings = <<>> /\ price_change = None /\ trend = None /\ insights = <<>>
    /\ fault = "none" /\ sort_by = "" /\ idx = 0 /\ changes = <<>>

SelectSortBy ==
    /\ pc = "sidebar"
    /\ \E by \in {"Price Change", "Market Cap"} : sort_by' = by
    /\ pc' = "loop"
    /\ UNCHANGED <<data, timeframe, period, indicators, warnings, price_change,
                   trend, insights, fault, feed, market_caps, idx, changes>>

\* one iteration of the loop over crypto_mapping
ProcessCoin ==
    /\ pc = "loop"
    /\ idx < Len(crypto_mapping)
    /\ LET entry == crypto_mapping[idx + 1]
           d == feed[entry.ticker]
           change == calculate_price_change(d)
           market_cap == market_caps[coingecko_ids(entry.coin)]
       IN  /\ data' = d
           /\ price_change' = change
           /\ changes' = IF ~IsNone(change)
                         THEN Append(changes, Card(entry, change, d, market_cap))
                         ELSE changes
    /\ idx' = idx + 1
    /\ UNCHANGED <<pc, timeframe, period, indicators, warnings, trend, insights,
                   fault, feed, market_caps, sort_by>>

SortChanges ==
    /\ pc = "loop"
    /\ idx = Len(crypto_mapping)
    /\ changes' = IF sort_by \in {"Price Change", "Market Cap"}
                  THEN SortedReverse(changes, sort_by)
                  ELSE changes
    /\ pc' = "cards"
    /\ UNCHANGED <<data, timeframe, period, indicators, warnings, price_change,
                   trend, insights, fault, feed, market_caps, sort_by, idx>>

NextDashboard ==
    \/ SelectSortBy
    \/ ProcessCoin
    \/ SortChanges

SpecDashboard == InitDashboard /\ [][NextDashboard]_vars

\* the percent change of a series is a defined value
HasDefinedChange(d) ==
    /\ ~IsNone(d)
    /\ Len(Get(d)) >= 2
    /\ ~AllZero(Get(d))

Occurrences(coin) == Cardinality({i \in 1..Len(changes) : changes[i].coin = coin})

\* C5: the ranking holds exactly the instruments whose percent change is
\* defined: an instrument whose series is absent, has fewer than two bars or
\* has only zero closes is excluded, every other instrument is there once.
C5_RankingHoldsDefinedChanges ==
    pc \in {"loop", "cards"} =>
        /\ \A k \in 1..idx :
              Occurrences(crypto_mapping[k].coin) =
                  IF HasDefinedChange(feed[crypto_mapping[k].ticker]) THEN 1 ELSE 0
        /\ \A k \in (idx + 1)..Len(crypto_mapping) :
              Occurrences(crypto_mapping[k].coin) = 0

\* the ranking of an all-zero series, a rising series and a failed download
\* holds the rising instrument alone
C5_Witness ==
    /\ pc = "cards"
    /\ feed["BTC-USD"] = Some(<<0, 0, 0>>)
    /\ feed["ETH-USD"] = Some(<<5, 10>>)
    /\ feed["SOL-USD"] = None
    /\ Len(changes) = 1
    /\ changes[1].coin = "Ethereum (ETH)"

\* the place of a coin in crypto_mapping
InputOrder(coin) == CHOOSE k \in 1..Len(crypto_mapping) : crypto_mapping[k].coin = coin

\* the key of the ranking: the percent change, or the market cap with an
\* absent market cap counted as 0
RankingKey(x) ==
    IF sort_by = "Price Change" THEN x.change
    ELSE IF IsNone(x.market_cap) THEN Int2Rat(0)
    ELSE Int2Rat(Get(x.market_cap))

\* C6: the ranking is in descending order of the chosen key, an absent market
\* cap counting as 0 and coming after every positive cap, and entries with
\* equal keys keep their input order; by market cap, caps (none, 100, 50)
\* rank second, third, first instrument.
C6_DescendingAndStable ==
    pc = "cards" =>
        /\ \A i, j \in 1..Len(changes) :
              i < j =>
                  /\ ~RatGT(RankingKey(changes[j]), RankingKey(changes[i]))
                  /\ RankingKey(changes[i]) = RankingKey(changes[j]) =>
                        InputOrder(changes[i].coin) < InputOrder(changes[j].coin)
                  /\ (sort_by = "Market Cap" /\ IsNone(changes[i].market_cap)) =>
                        (IsNone(changes[j].market_cap) \/ Get(changes[j].market_cap) <= 0)
        /\ (/\ sort_by = "Market Cap"
            /\ Len(changes) = 3
            /\ market_caps["bitcoin"] = None
            /\ market_caps["ethereum"] = Some(100)
            /\ market_caps["solana"] = Some(50)) =>
              <<changes[1].coin, changes[2].coin, changes[3].coin>>
                  = <<"Ethereum (ETH)", "Solana (SOL)", "Bitcoin (BTC)">>

\* the ranking of the example: caps (none, 100, 50), every change defined
C6_Witness ==
    /\ pc = "cards"
    /\ sort_by = "Market Cap"
    /\ market_caps["bitcoin"] = None
    /\ market_caps["ethereum"] = Some(100)
    /\ market_caps["solana"] = Some(50)
    /\ Len(changes) = 3
    /\ changes[1].coin = "Ethereum (ETH)"
    /\ changes[3].coin = "Bitcoin (BTC)"

====
